---- MODULE Spec2Model ----
(***************************************************************************)
(* Model of source_finder.py (class SourceFinder): the relevance scorer,   *)
(* the domain classifier, the trust-configuration loader, the stratified   *)
(* pairing and the build / find_sources loop with its collaborators.       *)
(*                                                                         *)
(* Strings are sequences of one-character strings, so that lower(),        *)
(* replace(), endswith(), `in` and the tokenising regular expression are   *)
(* computed character by character as the Python code computes them.       *)
(***************************************************************************)
EXTENDS Integers, Sequences, FiniteSets, TLC

VARIABLES
    reliable_domains,    \* self.reliable_domains
    unreliable_domains,  \* self.unreliable_domains
    url,                 \* argument of _classify_domain ("none" when unused)
    category,            \* return value of _classify_domain
    query,               \* argument gold_query of _compute_relevance_score
    score,               \* return value of _compute_relevance_score
    hits,                \* keyword_hits of the last scoring call
    nkw,                 \* len(query_keywords) of the last scoring call
    sources,             \* argument of _create_paired_sets
    paired,              \* return value of _create_paired_sets
    config,              \* what is on disk at domain_trust_config_path
    ctor,                \* outcome of SourceFinder.__init__
    pc,                  \* position of build / find_sources
    qi,                  \* index of the query being searched
    remaining,           \* search results of the current query not yet processed
    all_sources,         \* find_sources' all_sources
    result,              \* what build returned
    raisedAt,            \* the steps at which an exception has been raised
    unhandled,           \* an exception reached build's except clause
    lastStep,            \* what the last processed search result came to
    xpc,                 \* position of the thread that calls _extract_text_from_url
    clock,               \* time since executor.submit in _extract_text_from_url
    worker,              \* state of the pool's worker running _do_extract
    xi,                  \* index of the search result being extracted
    xtext                \* what _extract_text_from_url returned for result xi

objVars == <<reliable_domains, unreliable_domains>>
classifyVars == <<url, category>>
scoreVars == <<query, score, hits, nkw>>
pairVars == <<sources, paired>>
loadVars == <<config, ctor>>
buildVars == <<pc, qi, remaining, all_sources, result, raisedAt, unhandled, lastStep>>
extractVars == <<xpc, clock, worker, xi, xtext>>
vars == <<objVars, classifyVars, scoreVars, pairVars, loadVars, buildVars, extractVars>>

-----------------------------------------------------------------------------
(* Bounds of the model.                                                    *)

MaxHostLen == 6
MaxQueryLen == 7
MaxTextLen == 3
FuzzyStep == 25
MaxReliable == 5
MaxUnreliable == 4
MaxUnknown == 1
QueriesPerType == 1
MaxResults == 1
MaxUrls == 2
MaxOvertime == 2

-----------------------------------------------------------------------------
(* Strings.                                                                *)

Min(a, b) == IF a < b THEN a ELSE b
Max(a, b) == IF a > b THEN a ELSE b

\* All strings over the alphabet A of length at most n.
StringsUpTo(A, n) == UNION {[1..k -> A] : k \in 0..n}

\* s.startswith(p) at offset i (1-based): p occurs in s at position i.
OccursAt(s, p, i) ==
    /\ i + Len(p) - 1 <= Len(s)
    /\ \A j \in 1..Len(p) : s[i + j - 1] = p[j]

\* `p in s` for Python strings.
Contains(s, p) == \E i \in 1..(Len(s) - Len(p) + 1) : OccursAt(s, p, i)

\* s.endswith(p)
EndsWith(s, p) == Len(p) <= Len(s) /\ OccursAt(s, p, Len(s) - Len(p) + 1)

\* str.lower() on the characters of the model's alphabets.
LowerChar(c) ==
    CASE c = "A" -> "a"
      [] c = "L" -> "l"
      [] c = "W" -> "w"
      [] OTHER -> c

Lower(s) == [i \in 1..Len(s) |-> LowerChar(s[i])]

\* s.replace(old, "") : every non-overlapping occurrence of old, scanning
\* from the left, is removed.
RECURSIVE RemoveAll(_, _)
RemoveAll(s, old) ==
    IF Len(s) = 0 THEN <<>>
    ELSE IF OccursAt(s, old, 1)
         THEN RemoveAll(SubSeq(s, Len(old) + 1, Len(s)), old)
         ELSE <<Head(s)>> \o RemoveAll(Tail(s), old)

Www == <<"w", "w", "w", ".">>
Dot == <<".">>

-----------------------------------------------------------------------------
(* urlparse(url).netloc.  A url of the model is the scheme (one element,  *)
(* "http:"), "//", the characters of the netloc and a path that starts     *)
(* with "/".  urlparse takes as netloc what follows "//" up to the next    *)
(* "/", and raises ValueError ("Invalid IPv6 URL") when the netloc holds   *)
(* one of the brackets "[" and "]" without the other.                      *)

MakeUrl(host, path) == <<"http:", "/", "/">> \o host \o path

HasChar(s, c) == \E i \in 1..Len(s) : s[i] = c

Netloc(u) ==
    IF Len(u) >= 3 /\ u[2] = "/" /\ u[3] = "/"
    THEN LET rest == SubSeq(u, 4, Len(u))
             slashes == {i \in 1..Len(rest) : rest[i] = "/"}
             stop == IF slashes = {} THEN Len(rest) + 1
                     ELSE CHOOSE i \in slashes : \A j \in slashes : i <= j
         IN SubSeq(rest, 1, stop - 1)
    ELSE <<>>

UrlParseRaises(u) == HasChar(Netloc(u), "[") # HasChar(Netloc(u), "]")

-----------------------------------------------------------------------------
(* _classify_domain                                                        *)

\* domain == d or domain.endswith("." + d)
DomainMatches(domain, d) == domain = d \/ EndsWith(domain, Dot \o d)

\* urlparse(url).netloc.lower().replace("www.", "")
DomainOf(u) == RemoveAll(Lower(Netloc(u)), Www)

_classify_domain(u, rel, unrel) ==
    IF UrlParseRaises(u) THEN "unknown"          \* except Exception: "unknown"
    ELSE LET domain == DomainOf(u) IN
         IF \E d \in rel : DomainMatches(domain, d) THEN "reliable"
         ELSE IF \E d \in unrel : DomainMatches(domain, d) THEN "unreliable"
         ELSE "unknown"

\* Inputs of the classifier's specification.
HostChars == {"w", ".", "a", "A", "["}
ReliableEntries == {<<"a">>, <<"w", ".", "a">>}
UnreliableEntries == {<<"a">>, <<"a", "a">>}
UrlPaths == {<<>>, <<"/", "a">>}

-----------------------------------------------------------------------------
(* _extract_keywords and _compute_relevance_score                          *)

\* [a-zA-Z] on lowercased text.  The alphabets of the model hold letters,
\* the space, the dot and the bracket, so every run of letters is delimited
\* by \b on both sides and re.findall returns the maximal runs of letters.
IsLetter(c) == c \in {"a", "l", "w"}

\* re.findall(r'\b[a-zA-Z]+\b', s): the maximal runs of letters, in order.
RECURSIVE FindWords(_, _)
FindWords(s, cur) ==
    IF Len(s) = 0 THEN (IF Len(cur) = 0 THEN <<>> ELSE <<cur>>)
    ELSE IF IsLetter(Head(s)) THEN FindWords(Tail(s), Append(cur, Head(s)))
    ELSE (IF Len(cur) = 0 THEN <<>> ELSE <<cur>>) \o FindWords(Tail(s), <<>>)

\* The members of sklearn's ENGLISH_STOP_WORDS that can be spelled with the
\* letters of the model.
stopwords == {<<"a">>, <<"a", "l", "l">>}

MinWordLen == 2

\* [word for word in words if word not in self.stopwords and len(word) > 2]
RECURSIVE KeepKeywords(_)
KeepKeywords(words) ==
    IF Len(words) = 0 THEN <<>>
    ELSE (IF Head(words) \notin stopwords /\ Len(Head(words)) > MinWordLen
          THEN <<Head(words)>> ELSE <<>>) \o KeepKeywords(Tail(words))

_extract_keywords(text) == KeepKeywords(FindWords(Lower(text), <<>>))

\* sum(1 for keyword in query_keywords if keyword in text_lower)
KeywordHits(query_keywords, text_lower) ==
    Cardinality({i \in 1..Len(query_keywords) : Contains(text_lower, query_keywords[i])})

\* A score is the exact rational num / den; st tells whether the call
\* returned ("ok") or has not been made ("none").
NoScore == [st |-> "none", num |-> 0, den |-> 1]
ZeroScore == [st |-> "ok", num |-> 0, den |-> 1]

\* 0.6 * keyword_hit_rate + 0.4 * fuzzy_score, with keyword_hit_rate =
\* keyword_hits / n and fuzzy_score = fuzzy / 100.0, over the denominator 1000 * n.
WeightedScore(keyword_hits, n, fuzzy) ==
    [st |-> "ok", num |-> 600 * keyword_hits + 4 * fuzzy * n, den |-> 1000 * n]

\* (a variant whose hit rate divides by the number of distinct keywords)
ScoreOverDistinctKeywords(gold_query, text, fuzzy) ==
    LET query_keywords == _extract_keywords(gold_query)
        distinct == Cardinality({query_keywords[i] : i \in 1..Len(query_keywords)})
    IN IF Len(query_keywords) = 0 THEN ZeroScore
       ELSE [st |-> "ok",
             num |-> 600 * KeywordHits(query_keywords, Lower(text)) + 4 * fuzzy * distinct,
             den |-> 1000 * distinct]

\* fuzzy is what fuzz.token_set_ratio(gold_query, text[:5000]) returns, a
\* ratio between 0 and 100 computed by the rapidfuzz library.
_compute_relevance_score(gold_query, text, fuzzy) ==
    LET query_keywords == _extract_keywords(gold_query) IN
    IF Len(query_keywords) = 0 THEN ZeroScore
    ELSE WeightedScore(KeywordHits(query_keywords, Lower(text)), Len(query_keywords), fuzzy)

\* score < 0.35
MinScorePercent == 35
BelowThreshold(sc) == 100 * sc.num < MinScorePercent * sc.den

QueryChars == {"a", "L", " "}
TextChars == {"a", "L"}
FuzzyRatios == {k * FuzzyStep : k \in 0..(100 \div FuzzyStep)} \cup {100}

-----------------------------------------------------------------------------
(* _create_paired_sets                                                     *)

\* list with its element at index i removed
RemoveAt(list, i) == SubSeq(list, 1, i - 1) \o SubSeq(list, i + 1, Len(list))

\* random.shuffle(list): the lists it can leave, every ordering of the
\* elements of list.
RECURSIVE ShuffleOutcomes(_)
ShuffleOutcomes(list) ==
    IF Len(list) = 0 THEN {<<>>}
    ELSE LET firsts == {list[i] : i \in 1..Len(list)} IN
         UNION {{<<e>> \o rest :
                     rest \in ShuffleOutcomes(
                         RemoveAt(list, CHOOSE i \in 1..Len(list) : list[i] = e))} :
                    e \in firsts}

\* [s for s in sources if s['category'] == cat]
OfCategory(srcs, cat) == SelectSeq(srcs, LAMBDA s : s.category = cat)

\* format_source: the fields of the output (the timestamp, the time of the
\* call, is left out); the snippet of the source is dropped.
format_source(source) ==
    [url |-> source.url, domain |-> source.domain, category |-> source.category,
     title |-> source.title, text |-> source.text, score |-> source.score]

FormatAll(list) == [i \in 1..Len(list) |-> format_source(list[i])]

ClearReliable == 4
UnclearUnreliableEnd == 4

\* list[a:b] of Python (0-based a inclusive, b exclusive, clipped)
Slice(list, a, b) == SubSeq(list, a + 1, IF b < Len(list) THEN b ELSE Len(list))

\* The result of a call: st is "none" before the call, "ok" after it.
NoResult == [st |-> "none", clear_set |-> <<>>, unclear_set |-> <<>>]
EmptyResult == [st |-> "ok", clear_set |-> <<>>, unclear_set |-> <<>>]

\* (a variant that starts the slice at index 0, the element of the clear set)
UnclearUnreliableFromZero(unreliable_sources) == Slice(unreliable_sources, 0, 3)

\* the unclear set's share of the shuffled unreliable sources
UnclearUnreliable(unreliable_sources) ==
    IF Len(unreliable_sources) >= UnclearUnreliableEnd
    THEN Slice(unreliable_sources, 1, UnclearUnreliableEnd)
    ELSE Slice(unreliable_sources, 1, Len(unreliable_sources))

\* reliable_sources and unreliable_sources are the two lists as
\* random.shuffle left them.
_create_paired_sets(reliable_sources, unreliable_sources) ==
    LET clear_set ==
            (IF Len(reliable_sources) >= ClearReliable
             THEN Slice(reliable_sources, 0, ClearReliable)
             ELSE reliable_sources)
            \o (IF Len(unreliable_sources) >= 1 THEN <<unreliable_sources[1]>> ELSE <<>>)
        unclear_set ==
            (IF Len(reliable_sources) >= ClearReliable + 1
             THEN <<reliable_sources[ClearReliable + 1]>> ELSE <<>>)
            \o UnclearUnreliable(unreliable_sources)
    IN [st |-> "ok", clear_set |-> FormatAll(clear_set), unclear_set |-> FormatAll(unclear_set)]

\* A source of the given category; id tells the sources of a collection apart.
SourceOf(id, cat) ==
    [url |-> id, domain |-> id, category |-> cat, score |-> ZeroScore,
     text |-> 400, title |-> "t", snippet |-> "s"]

\* A collection with r reliable, u unreliable and k unknown sources, the
\* categories taken in turn.
RECURSIVE Collection(_, _, _, _)
Collection(r, u, k, id) ==
    IF r + u + k = 0 THEN <<>>
    ELSE (IF k > 0 THEN <<SourceOf(id, "unknown")>> ELSE <<>>)
         \o (IF r > 0 THEN <<SourceOf(id + 1, "reliable")>> ELSE <<>>)
         \o (IF u > 0 THEN <<SourceOf(id + 2, "unreliable")>> ELSE <<>>)
         \o Collection(IF r > 0 THEN r - 1 ELSE 0, IF u > 0 THEN u - 1 ELSE 0,
                       IF k > 0 THEN k - 1 ELSE 0, id + 3)

-----------------------------------------------------------------------------
(* _load_domain_config                                                     *)

\* What can be at domain_trust_config_path.  kind is "missing" (open raises
\* FileNotFoundError), "permission_denied" (open raises PermissionError),
\* "invalid_json" (json.load raises JSONDecodeError) or "json"; the top
\* level of a json document is an "object" (topic key -> section) or an
\* "array".  A section is a dict or not; each of its keys "reliable" and
\* "misleading" is absent, a list of domains or a number.
Topics == {"public_health", "finance"}
ConfigDomains == {<<"a">>, <<"a", "a">>}
Absent == [tag |-> "absent", items |-> {}]
Number == [tag |-> "number", items |-> {}]
FieldValues == {Absent, Number} \cup {[tag |-> "list", items |-> d] : d \in SUBSET ConfigDomains}
NotADict == [isdict |-> FALSE, reliable |-> Absent, misleading |-> Absent]
Sections ==
    {NotADict} \cup {[isdict |-> TRUE, reliable |-> r, misleading |-> m] :
                         r \in FieldValues, m \in FieldValues}
NoSections == [t \in Topics |-> NotADict]
NoConfig == [kind |-> "none", top |-> "none", sections |-> NoSections]
Configs ==
    {[kind |-> k, top |-> "none", sections |-> NoSections] :
         k \in {"missing", "permission_denied", "invalid_json"}}
    \cup {[kind |-> "json", top |-> "array", sections |-> NoSections]}
    \cup {[kind |-> "json", top |-> "object", sections |-> sec] : sec \in [Topics -> Sections]}

\* set.update(topic_cfg.get(key, [])) over the dict sections
UnionOf(cfg, key) ==
    UNION {IF key = "reliable" THEN cfg.sections[t].reliable.items
           ELSE cfg.sections[t].misleading.items :
               t \in {tt \in Topics : cfg.sections[tt].isdict}}

\* set.update(5) raises TypeError
UpdateRaises(cfg) ==
    \E t \in Topics :
        /\ cfg.sections[t].isdict
        /\ (cfg.sections[t].reliable.tag = "number" \/ cfg.sections[t].misleading.tag = "number")

\* The exception that leaves _load_domain_config ("none": it returns), and
\* self.reliable_domains and self.unreliable_domains after it; before the
\* call __init__ has set both to set().
_load_domain_config(cfg) ==
    IF cfg.kind = "missing" \/ cfg.kind = "invalid_json"
    THEN [raised |-> "none", reliable |-> {}, unreliable |-> {}]
    ELSE IF cfg.kind = "permission_denied"
    THEN [raised |-> "PermissionError", reliable |-> {}, unreliable |-> {}]
    ELSE IF cfg.top # "object"
    THEN [raised |-> "AttributeError", reliable |-> {}, unreliable |-> {}]
    ELSE IF UpdateRaises(cfg)
    THEN [raised |-> "TypeError", reliable |-> {}, unreliable |-> {}]
    ELSE [raised |-> "none", reliable |-> UnionOf(cfg, "reliable"),
          unreliable |-> UnionOf(cfg, "misleading")]

-----------------------------------------------------------------------------
(* build, find_sources and their collaborators                             *)

\* self.search_queries: the suffixes appended to the gold query, per source
\* type, in the order find_sources iterates them.
search_queries ==
    [reliable |-> <<"", " guidelines", " research", " government", " academic">>,
     unreliable |-> <<"", " reddit", " twitter", " natural medicine",
                      " alternative treatment", " conspiracy", " natural news">>]

\* The queries of a run: the first QueriesPerType of each source type.
QueryPlan ==
    SubSeq(search_queries.reliable, 1, Min(QueriesPerType, Len(search_queries.reliable)))
    \o SubSeq(search_queries.unreliable, 1, Min(QueriesPerType, Len(search_queries.unreliable)))

\* The gold query of the run (four keywords) and what an extracted text holds
\* of it: a text of the model is its length and this content.
GoldQuery == <<"a", "L", "a", " ", "a", "a", "a", " ", "L", "a", "a", " ", "L", "L", "L">>
TextBody == <<"a", "L", "a">>

\* The trust table of the run and the urls the search can return: a
\* reliable, an unreliable and an unknown host, and a host urlparse rejects.
RunReliable == {<<"a">>}
RunUnreliable == {<<"a", "a">>}
UrlPool ==
    {MakeUrl(<<"w", "w", "w", ".", "a">>, <<"/", "a">>), MakeUrl(<<"A", "a">>, <<>>),
     MakeUrl(<<"w">>, <<>>), MakeUrl(<<"[", "a">>, <<"/", "a">>)}

\* The fuzzy ratios next to the acceptance threshold for one keyword of four.
ThresholdFuzzy == {49, 50}

MinTextLen == 400
TextKeep == 1000
NoText == -1

\* What the worker of _extract_text_from_url comes to: it does not finish
\* within the timeout, _do_extract returns None (no download, nothing
\* extracted, or an exception inside it), or it returns a stripped text.
ExtractOutcomes ==
    {[kind |-> "timeout", len |-> NoText], [kind |-> "none", len |-> NoText]}
    \cup {[kind |-> "text", len |-> n] : n \in {MinTextLen - 1, MinTextLen}}

\* future.result(timeout=10)
Timeout == 10

\* The pool's worker: st is "none" (nothing submitted), "running"
\* (_do_extract has not returned) or "done", with what _do_extract returned.
NoWorker == [st |-> "none", out |-> [kind |-> "none", len |-> NoText]]
Running == [st |-> "running", out |-> [kind |-> "none", len |-> NoText]]
Finished(out) == [st |-> "done", out |-> out]
WorkerReturns == {o \in ExtractOutcomes : o.kind # "timeout"}

\* The value _extract_text_from_url returns: the length of the text, or
\* NoText for None.
_extract_text_from_url(out) ==
    IF out.kind = "text" /\ out.len > 0 /\ out.len >= MinTextLen THEN out.len ELSE NoText

\* (a variant without the try/except around the provider)
SearchPropagating(n, failed) == [raised |-> failed, count |-> n]

\* _search_duckduckgo: n results were appended when the provider raised
\* (failed) or ended; the exception is caught and the results are returned.
_search_duckduckgo(n, failed) == [raised |-> FALSE, count |-> n]

\* urlparse(url).netloc.replace("www.", "") in find_sources
SourceDomain(u) == RemoveAll(Netloc(u), Www)

\* The source entry find_sources creates.
NewSource(u, cat, sc, len) ==
    [url |-> u, domain |-> SourceDomain(u), category |-> cat, score |-> sc,
     text |-> Min(len, TextKeep), title |-> "t", snippet |-> "s"]

\* (a variant that returns what was collected before the exception)
BuildOnErrorPartial(collected) ==
    _create_paired_sets(OfCategory(collected, "reliable"), OfCategory(collected, "unreliable"))

\* What build returns from its except clause.
BuildOnError(collected) == EmptyResult

\* The last step of the run: the collaborator call made, the exception
\* raised in it ("none" if none), and for a search result the length of the
\* text the worker returned, the url and the score of a result whose text
\* was extracted, and len(all_sources) before the step.
NoStep == [step |-> "none", raised |-> "none", url |-> <<>>, len |-> NoText,
           score |-> NoScore, nbefore |-> 0]
Step(name, exc, u, len, sc, nb) ==
    [step |-> name, raised |-> exc, url |-> u, len |-> len, score |-> sc, nbefore |-> nb]

RaisedScore == [st |-> "raised", num |-> 0, den |-> 1]

-----------------------------------------------------------------------------
(* Values of the variables a specification does not use.                   *)

IdleObj == reliable_domains = {} /\ unreliable_domains = {}
IdleClassify == url = <<>> /\ category = "none"
IdleScore == query = <<>> /\ score = NoScore /\ hits = 0 /\ nkw = 0
IdlePair == sources = <<>> /\ paired = NoResult
IdleLoad == config = NoConfig /\ ctor = "none"
IdleBuild ==
    /\ pc = "idle" /\ qi = 0 /\ remaining = 0 /\ all_sources = <<>>
    /\ result = NoResult /\ raisedAt = {} /\ unhandled = FALSE
    /\ lastStep = NoStep
IdleExtract == xpc = "idle" /\ clock = 0 /\ worker = NoWorker /\ xi = 0 /\ xtext = NoText

-----------------------------------------------------------------------------
(* Specification of the classifier: any url, any trust table, one call.    *)

InitClassify ==
    /\ \E host \in StringsUpTo(HostChars, MaxHostLen), path \in UrlPaths :
           url = MakeUrl(host, path)
    /\ reliable_domains \in SUBSET ReliableEntries
    /\ unreliable_domains \in SUBSET UnreliableEntries
    /\ category = "none"
    /\ IdleScore /\ IdlePair /\ IdleLoad /\ IdleBuild /\ IdleExtract

Classify ==
    /\ category = "none"
    /\ category' = _classify_domain(url, reliable_domains, unreliable_domains)
    /\ UNCHANGED <<objVars, url, scoreVars, pairVars, loadVars, buildVars, extractVars>>

NextClassify == Classify

SpecClassify == InitClassify /\ [][NextClassify]_vars

\* The classification of section 4.2: the host, lowercased, with a leading
\* "www." stripped, matched against the reliable table and then the
\* unreliable one.
StripLeadingWww(s) == IF OccursAt(s, Www, 1) THEN SubSeq(s, Len(Www) + 1, Len(s)) ELSE s

StatedCategory(u, rel, unrel) ==
    LET d == StripLeadingWww(Lower(Netloc(u))) IN
    IF \E e \in rel : d = e \/ EndsWith(d, Dot \o e) THEN "reliable"
    ELSE IF \E e \in unrel : d = e \/ EndsWith(d, Dot \o e) THEN "unreliable"
    ELSE "unknown"

\* C5: for every url whose host parses and every trust table, _classify_domain
\* returns reliable iff the host (lowercased, leading "www." stripped) equals a
\* reliable entry or ends with "." + entry, otherwise unreliable iff an
\* unreliable entry matches so, otherwise unknown.
C5_ClassifyAsStated ==
    (category # "none" /\ ~UrlParseRaises(url))
        => category = StatedCategory(url, reliable_domains, unreliable_domains)

-----------------------------------------------------------------------------
(* Specification of the scorer: any query, any text, any fuzzy ratio.      *)

InitScore ==
    /\ query \in StringsUpTo(QueryChars, MaxQueryLen)
    /\ score = NoScore /\ hits = 0 /\ nkw = 0
    /\ IdleObj /\ IdleClassify /\ IdlePair /\ IdleLoad /\ IdleBuild /\ IdleExtract

Score ==
    /\ score.st = "none"
    /\ LET kw == _extract_keywords(query) IN
       \E text \in StringsUpTo(TextChars, MaxTextLen), fuzzy \in FuzzyRatios :
           /\ score' = _compute_relevance_score(query, text, fuzzy)
           /\ hits' = KeywordHits(kw, Lower(text))
           /\ nkw' = Len(kw)
    /\ UNCHANGED <<objVars, classifyVars, query, pairVars, loadVars, buildVars, extractVars>>

NextScore == Score

SpecScore == InitScore /\ [][NextScore]_vars

\* C8: the relevance score lies in [0, 1]; with n > 0 keywords and h of them
\* found (0 <= h <= n) it is 0.6*h/n + 0.4*fuzzy/100, and when the query has
\* no keyword it is 0.0 (no division by the keyword count).
C8_ScoreInUnitInterval ==
    score.st # "none" =>
        /\ score.st = "ok"
        /\ score.den > 0
        /\ 0 <= score.num /\ score.num <= score.den
        /\ 0 <= hits /\ hits <= nkw
        /\ (nkw = 0 => score = ZeroScore)

\* C8 witness: a query with a repeated keyword, all of them found, and a full
\* fuzzy ratio: the score reaches 1.
C8_Witness ==
    /\ score.st = "ok" /\ nkw = 2 /\ hits = 2 /\ score.num = score.den
    /\ _extract_keywords(query)[1] = _extract_keywords(query)[2]

-----------------------------------------------------------------------------
(* Specification of the pairing: any numbers of reliable, unreliable and   *)
(* unknown sources, any outcome of the two shuffles.                       *)

InitPair ==
    /\ \E r \in 0..MaxReliable, u \in 0..MaxUnreliable, k \in 0..MaxUnknown :
           sources = Collection(r, u, k, 1)
    /\ paired = NoResult
    /\ IdleObj /\ IdleClassify /\ IdleScore /\ IdleLoad /\ IdleBuild /\ IdleExtract

CreatePairedSets ==
    /\ paired.st = "none"
    /\ \E reliable_sources \in ShuffleOutcomes(OfCategory(sources, "reliable")),
          unreliable_sources \in ShuffleOutcomes(OfCategory(sources, "unreliable")) :
           paired' = _create_paired_sets(reliable_sources, unreliable_sources)
    /\ UNCHANGED <<objVars, classifyVars, scoreVars, sources, loadVars, buildVars, extractVars>>

NextPair == CreatePairedSets

SpecPair == InitPair /\ [][NextPair]_vars

CountOf(srcs, cat) == Len(OfCategory(srcs, cat))

\* The outputs formatted from the sources of a category.
Formatted(srcs, cat) == {format_source(srcs[i]) : i \in {j \in 1..Len(srcs) : srcs[j].category = cat}}

\* list[from..to] are all drawn from pool
AllIn(list, from, to, pool) == \A i \in from..to : list[i] \in pool

-----------------------------------------------------------------------------
(* Specification of the constructor: any content of the configuration.     *)

InitLoad ==
    /\ config \in Configs
    /\ ctor = "none"
    /\ IdleObj /\ IdleClassify /\ IdleScore /\ IdlePair /\ IdleBuild /\ IdleExtract

\* SourceFinder.__init__: ctor is "ok" when the object is constructed, else
\* the exception the constructor raises.
Construct ==
    /\ ctor = "none"
    /\ LET loaded == _load_domain_config(config) IN
           /\ reliable_domains' = loaded.reliable
           /\ unreliable_domains' = loaded.unreliable
           /\ ctor' = IF loaded.raised = "none" THEN "ok" ELSE loaded.raised
    /\ UNCHANGED <<classifyVars, scoreVars, pairVars, config, buildVars, extractVars>>

NextLoad == Construct

SpecLoad == InitLoad /\ [][NextLoad]_vars

\* The configuration does not load: there is no file, it cannot be read, it
\* is not JSON, or it is not a mapping from topic to section of domain lists.
LoadFails(cfg) ==
    \/ cfg.kind # "json"
    \/ cfg.top # "object"
    \/ UpdateRaises(cfg)

\* C10: after every failure to load the trust configuration the SourceFinder
\* is constructed without an error and both trust sets are empty.
C10_LoadFailuresRecovered ==
    (ctor # "none" /\ LoadFails(config))
        => (ctor = "ok" /\ reliable_domains = {} /\ unreliable_domains = {})

-----------------------------------------------------------------------------
(* Specification of build: the state after construction, then the loop of  *)
(* find_sources over the queries and their results, the snapshot, the      *)
(* pairing, and build's except clause.                                     *)

InitBuild ==
    /\ reliable_domains = RunReliable /\ unreliable_domains = RunUnreliable
    /\ query = GoldQuery /\ score = NoScore /\ hits = 0 /\ nkw = 0
    /\ pc = "search" /\ qi = 1 /\ remaining = 0 /\ all_sources = <<>>
    /\ result = NoResult /\ raisedAt = {} /\ unhandled = FALSE
    /\ lastStep = NoStep
    /\ IdleClassify /\ IdlePair /\ IdleLoad /\ IdleExtract

\* The loop position after the results of query q are exhausted.
NextQuery(q) ==
    /\ qi' = q + 1
    /\ pc' = IF q + 1 > Len(QueryPlan) THEN "snapshot" ELSE "search"

\* An exception leaves find_sources: build's except clause returns.
Abort(site) ==
    /\ unhandled' = TRUE
    /\ raisedAt' = raisedAt \cup site
    /\ result' = BuildOnError(all_sources)
    /\ pc' = "done"
    /\ UNCHANGED <<qi, remaining, all_sources>>

\* search_results = self._search_duckduckgo(query, max_results=15)
Search ==
    /\ pc = "search"
    /\ \E n \in 0..MaxResults, failed \in BOOLEAN :
        LET res == _search_duckduckgo(n, failed) IN
        /\ lastStep' = Step("search", IF failed THEN "search" ELSE "none", <<>>, NoText,
                            NoScore, Len(all_sources))
        /\ IF res.raised
           THEN Abort({"search"})
           ELSE /\ raisedAt' = IF failed THEN raisedAt \cup {"search"} ELSE raisedAt
                /\ remaining' = res.count
                /\ IF res.count = 0 THEN NextQuery(qi) ELSE pc' = "results" /\ qi' = qi
                /\ UNCHANGED <<all_sources, result, unhandled>>
    /\ UNCHANGED <<objVars, classifyVars, scoreVars, pairVars, loadVars, extractVars>>

\* The body of `for result in search_results` for one result.
Continue ==
    /\ remaining' = remaining - 1
    /\ IF remaining = 1 THEN NextQuery(qi) ELSE pc' = pc /\ qi' = qi
    /\ UNCHANGED <<result, unhandled>>

ProcessResult ==
    /\ pc = "results" /\ remaining > 0
    /\ \E u \in UrlPool, out \in ExtractOutcomes :
        LET text == _extract_text_from_url(out)
            nb == Len(all_sources)
        IN
        IF text = NoText
        THEN \* REJECTED: Could not extract text
             /\ lastStep' = Step("result", IF out.kind = "timeout" THEN "extract" ELSE "none",
                                 <<>>, out.len, NoScore, nb)
             /\ raisedAt' = raisedAt \cup (IF out.kind = "timeout" THEN {"extract"} ELSE {})
             /\ all_sources' = all_sources
             /\ Continue
        ELSE
          \/ \* fuzz.token_set_ratio raises inside _compute_relevance_score
             /\ lastStep' = Step("result", "score", u, text, RaisedScore, nb)
             /\ Abort({"score"})
          \/ \E fuzzy \in ThresholdFuzzy :
             LET sc == _compute_relevance_score(query, TextBody, fuzzy)
                 cat == _classify_domain(u, reliable_domains, unreliable_domains)
             IN
             IF BelowThreshold(sc)
             THEN \* REJECTED: Score too low
                  /\ lastStep' = Step("result", "none", u, text, sc, nb)
                  /\ raisedAt' = raisedAt
                  /\ all_sources' = all_sources
                  /\ Continue
             ELSE IF UrlParseRaises(u)
             THEN \* _classify_domain catches the ValueError of urlparse; the
                  \* urlparse of the source entry raises it again, uncaught
                  /\ lastStep' = Step("result", "create", u, text, sc, nb)
                  /\ Abort({"classify", "create"})
             ELSE /\ lastStep' = Step("result", "none", u, text, sc, nb)
                  /\ raisedAt' = raisedAt
                  /\ all_sources' = Append(all_sources, NewSource(u, cat, sc, text))
                  /\ Continue
    /\ UNCHANGED <<objVars, classifyVars, scoreVars, pairVars, loadVars, extractVars>>

\* The dump of the collected sources to scraped_sources.json; a failure to
\* write it is caught.
Snapshot ==
    /\ pc = "snapshot"
    /\ \E writeFails \in BOOLEAN :
        /\ lastStep' = Step("snapshot", IF writeFails THEN "snapshot" ELSE "none", <<>>,
                            NoText, NoScore, Len(all_sources))
        /\ raisedAt' = IF writeFails THEN raisedAt \cup {"snapshot"} ELSE raisedAt
    /\ pc' = "pair"
    /\ UNCHANGED <<objVars, classifyVars, scoreVars, pairVars, loadVars, qi, remaining,
                   all_sources, result, unhandled, extractVars>>

\* paired_sets = self._create_paired_sets(all_sources), and build's return.
Pair ==
    /\ pc = "pair"
    /\ \/ /\ \E reliable_sources \in ShuffleOutcomes(OfCategory(all_sources, "reliable")),
                unreliable_sources \in ShuffleOutcomes(OfCategory(all_sources, "unreliable")) :
                result' = _create_paired_sets(reliable_sources, unreliable_sources)
          /\ lastStep' = Step("pair", "none", <<>>, NoText, NoScore, Len(all_sources))
          /\ pc' = "done"
          /\ UNCHANGED <<qi, remaining, all_sources, raisedAt, unhandled>>
       \/ \* random.shuffle or format_source raises
          /\ lastStep' = Step("pair", "pair", <<>>, NoText, NoScore, Len(all_sources))
          /\ Abort({"pair"})
    /\ UNCHANGED <<objVars, classifyVars, scoreVars, pairVars, loadVars, extractVars>>

NextBuild == Search \/ ProcessResult \/ Snapshot \/ Pair

SpecBuild == InitBuild /\ [][NextBuild]_vars

Urls(list) == {list[i].url : i \in 1..Len(list)}

\* C1: the clear_set and the unclear_set build returns never share a url.
C1_SetsDisjoint ==
    result.st = "ok" => Urls(result.clear_set) \cap Urls(result.unclear_set) = {}

\* The steps whose exceptions find_sources does not catch.
Unrecovered == {"score", "create", "pair"}

\* C3 as stated: after an exception raised at any step of the pipeline, build
\* returns exactly empty sets.
C3_EmptyAfterAnyException ==
    (pc = "done" /\ raisedAt # {}) => result = EmptyResult

\* C3 amended: build returns a result and raises nothing; when an exception
\* was raised that find_sources does not recover (in scoring, in the creation
\* of the source entry or in the pairing), the result is exactly the two
\* empty sets, never a partly filled one.
C3_FailSoft ==
    pc = "done" =>
        /\ result.st = "ok"
        /\ (raisedAt \cap Unrecovered # {}) = unhandled
        /\ unhandled => result = EmptyResult

\* C3 witness: sources were accepted, then the creation of a source entry
\* raised, and build returned the empty sets.
C3_Witness ==
    /\ pc = "done" /\ "create" \in raisedAt /\ Len(all_sources) > 0
    /\ result = EmptyResult

\* The last step was a search result whose text was extracted and whose score
\* reached the threshold.
PassedThresholds ==
    /\ lastStep.step = "result"
    /\ lastStep.len >= 400
    /\ lastStep.score.st = "ok"
    /\ 100 * lastStep.score.num >= 35 * lastStep.score.den

Appended == Len(all_sources) = lastStep.nbefore + 1

\* C6: a search result is appended to the collection iff its extraction
\* succeeds, its text has at least 400 characters and its score is at least
\* 0.35; every source of the collection satisfies both thresholds.
C6_AcceptedIffThresholds ==
    /\ lastStep.step = "result" => (Appended <=> PassedThresholds)
    /\ \A i \in 1..Len(all_sources) :
           /\ all_sources[i].text >= 400
           /\ 100 * all_sources[i].score.num >= 35 * all_sources[i].score.den

\* C7: a search that raises does not abort the run: nothing reaches build's
\* except clause, the sources collected so far are kept, build has not
\* returned, and the loop stands where a search without failure leaves it (at
\* the results of this query, at the next query, or past the last one); when
\* the run ends without an unrecovered exception every query was searched
\* and build returns the clear set drawn from the collected sources.
C7_SearchFailureTolerated ==
    /\ (lastStep.step = "search" /\ lastStep.raised = "search") =>
        /\ ~unhandled
        /\ result.st = "none"
        /\ Len(all_sources) = lastStep.nbefore
        /\ \/ pc = "results" /\ remaining > 0 /\ qi <= Len(QueryPlan)
           \/ pc = "search" /\ remaining = 0 /\ qi <= Len(QueryPlan)
           \/ pc = "snapshot" /\ remaining = 0 /\ qi = Len(QueryPlan) + 1
    /\ (pc = "done" /\ "search" \in raisedAt /\ ~unhandled) =>
        /\ qi = Len(QueryPlan) + 1
        /\ result.st = "ok"
        /\ Len(result.clear_set) =
               Min(CountOf(all_sources, "reliable"), 4) + Min(CountOf(all_sources, "unreliable"), 1)
        /\ \A i \in 1..Len(result.clear_set) :
               result.clear_set[i] \in Formatted(all_sources, result.clear_set[i].category)

\* C7 witness: a search raised, and build returned a clear set that holds an
\* accepted source.
C7_Witness ==
    /\ pc = "done" /\ "search" \in raisedAt /\ ~unhandled
    /\ Len(all_sources) > 0 /\ Len(result.clear_set) > 0

\* C9: a url whose host cannot be parsed, once it has passed extraction and
\* the relevance threshold, is appended with category unknown and the run
\* goes on.
C9_MalformedUrlRecovered ==
    (PassedThresholds /\ UrlParseRaises(lastStep.url)) =>
        /\ ~unhandled
        /\ Appended
        /\ all_sources[Len(all_sources)].category = "unknown"

-----------------------------------------------------------------------------
(* Specification of the extraction calls of find_sources, one search       *)
(* result after the other: the single-worker pool, the wait of at most     *)
(* Timeout in future.result, and the exit of the `with` block, which is    *)
(* executor.shutdown(wait=True).  clock is the time since the submit.      *)

InitExtract ==
    /\ xpc = "loop" /\ clock = 0 /\ worker = NoWorker /\ xi = 1 /\ xtext = NoText
    /\ IdleObj /\ IdleClassify /\ IdleScore /\ IdlePair /\ IdleLoad /\ IdleBuild

\* future = executor.submit(_do_extract)
Submit ==
    /\ xpc = "loop" /\ xi <= MaxUrls
    /\ worker' = Running /\ clock' = 0 /\ xpc' = "waiting"
    /\ UNCHANGED <<xi, xtext>>
    /\ UNCHANGED <<objVars, classifyVars, scoreVars, pairVars, loadVars, buildVars>>

\* _do_extract returns in the worker thread; nothing bounds the time it takes.
WorkerFinish ==
    /\ worker.st = "running"
    /\ \E out \in WorkerReturns : worker' = Finished(out)
    /\ UNCHANGED <<xpc, clock, xi, xtext>>
    /\ UNCHANGED <<objVars, classifyVars, scoreVars, pairVars, loadVars, buildVars>>

\* Time passes while the caller is blocked: in future.result up to the
\* timeout, in the shutdown for as long as the worker runs.
Tick ==
    /\ worker.st = "running"
    /\ \/ xpc = "waiting" /\ clock < Timeout
       \/ xpc = "shutdown" /\ clock < Timeout + MaxOvertime
    /\ clock' = clock + 1
    /\ UNCHANGED <<xpc, worker, xi, xtext>>
    /\ UNCHANGED <<objVars, classifyVars, scoreVars, pairVars, loadVars, buildVars>>

\* future.result returns the worker's value; the shutdown finds the worker
\* idle, the length test is made and the call returns.
GetResult ==
    /\ xpc = "waiting" /\ worker.st = "done"
    /\ xtext' = _extract_text_from_url(worker.out)
    /\ xpc' = "loop" /\ xi' = xi + 1 /\ worker' = NoWorker
    /\ UNCHANGED clock
    /\ UNCHANGED <<objVars, classifyVars, scoreVars, pairVars, loadVars, buildVars>>

\* future.result raises FuturesTimeout; `return None` leaves the `with`
\* block, whose exit calls executor.shutdown(wait=True).
TimeoutExpires ==
    /\ xpc = "waiting" /\ worker.st = "running" /\ clock = Timeout
    /\ xpc' = "shutdown"
    /\ UNCHANGED <<clock, worker, xi, xtext>>
    /\ UNCHANGED <<objVars, classifyVars, scoreVars, pairVars, loadVars, buildVars>>

\* shutdown(wait=True) returns once the worker has finished; the call then
\* returns None and find_sources goes to the next search result.
ShutdownReturns ==
    /\ xpc = "shutdown" /\ worker.st = "done"
    /\ xtext' = NoText
    /\ xpc' = "loop" /\ xi' = xi + 1 /\ worker' = NoWorker
    /\ UNCHANGED clock
    /\ UNCHANGED <<objVars, classifyVars, scoreVars, pairVars, loadVars, buildVars>>

NextExtract ==
    Submit \/ WorkerFinish \/ Tick \/ GetResult \/ TimeoutExpires \/ ShutdownReturns

SpecExtract == InitExtract /\ [][NextExtract]_vars

\* C4: when the fetch/extract of a url has not completed by the deadline, the
\* caller goes on to the next url at the deadline, without waiting for the
\* abandoned operation: it is never still inside the extraction call, behind
\* a running worker, after the deadline.
C4_ProceedsAtDeadline ==
    ~(xpc = "shutdown" /\ worker.st = "running" /\ clock > 10)

====
